---- MODULE Spec2Model ----
(***************************************************************************)
(* Task graph, agent dispatch and scheduling loop of the orchestrator.     *)
(*                                                                         *)
(*   src/orchestrator/models/task.py   Task, TaskResult, TaskGraph         *)
(*   src/orchestrator/main.py          Orchestrator                        *)
(*   src/orchestrator/agents/base.py   BaseAgent                           *)
(*   src/orchestrator/agents/verifier.py, analysis.py, planner.py          *)
(*   src/orchestrator/utils/anomaly_detection.py   PatternDetector         *)
(*                                                                         *)
(* The specifications share the variables:                                 *)
(*   SpecGraph     a TaskGraph built by add_task / add_dependency calls and*)
(*                 queried by get_ready_tasks / is_complete;               *)
(*   Spec          one call of Orchestrator._execute_task_graph on a graph,*)
(*                 with the agents' worker loops beside it;                *)
(*   FairSpec      Spec with the fairness of the asyncio event loop;       *)
(*   SpecPayload   one call of Orchestrator._prepare_task_payload;         *)
(*   SpecPlan      _prepare_task_payload on the planner's default plan;    *)
(*   SpecConsensus the verifier's consensus and human-review functions;    *)
(*   SpecVerifier  VerifierAgent._verify_pattern repeated on one finding;  *)
(*   SpecDetector  PatternDetector._detect_structuring on a list;          *)
(*   SpecAnalysis  AnalysisAgent.process_task on its detectors' outputs.   *)
(***************************************************************************)
EXTENDS Integers, Sequences, FiniteSets, TLC

VARIABLES
    tasks,            \* TaskGraph.tasks: list of Task
    edges,            \* TaskGraph.edges: list of (from_task_id, to_task_id)
    completed_tasks,  \* the completed-id set (argument of the queries / local of the loop)
    ready_tasks,      \* result of get_ready_tasks: positions in tasks, in returned order
    complete,         \* result of the last is_complete evaluation
    pc,               \* position of the run
    task_results,     \* _execute_task_graph's results map: task id -> TaskResult
    execution_tasks,  \* the round's asyncio tasks, in creation order
    raised,           \* how _execute_task_graph ended: "none", "report" or the exception
    now,              \* logical clock behind datetime.utcnow()
    dispatch_count,   \* per task position: calls of _execute_task_with_agent (history)
    is_running,       \* BaseAgent.is_running per agent
    task_queue,       \* BaseAgent.task_queue per agent
    processed_tasks,  \* BaseAgent.processed_tasks per agent
    failed_tasks,     \* BaseAgent.failed_tasks per agent
    process_calls,    \* per task position: calls of process_task (history)
    agent_results,    \* per task position: the result local of _process_task_with_logging
    prepared_payload,      \* the payload the last _prepare_task_payload call returned
    consensus,             \* the last _calculate_consensus call: arguments and returned tuple
    human_review,          \* the last _determine_human_review_needed call: arguments and flag
    pattern,               \* the finding handed to VerifierAgent._verify_pattern
    consensus_threshold,   \* its consensus_threshold argument
    verification_results,  \* the VerificationResults made for the finding, in call order
    transactions,          \* the transactions handed to PatternDetector._detect_structuring
    patterns,              \* the list it returned
    analysis_results,      \* the analysis_results handed to _create_suspicious_patterns
    suspicious_patterns    \* the list it returned

vars == <<tasks, edges, completed_tasks, ready_tasks, complete, pc, task_results,
          execution_tasks, raised, now, dispatch_count, is_running, task_queue,
          processed_tasks, failed_tasks, process_calls, agent_results,
          prepared_payload, consensus, human_review, pattern, consensus_threshold,
          verification_results, transactions, patterns, analysis_results,
          suspicious_patterns>>

graphVars == <<tasks, edges>>
runVars == <<pc, task_results, execution_tasks, raised, now, dispatch_count>>
queryVars == <<completed_tasks, ready_tasks, complete>>
agentVars == <<is_running, task_queue, processed_tasks, failed_tasks, process_calls,
               agent_results>>
consensusVars == <<consensus, human_review>>
verifierVars == <<pattern, consensus_threshold, verification_results>>
detectorVars == <<transactions, patterns>>
analysisVars == <<analysis_results, suspicious_patterns>>
callVars == <<prepared_payload, consensusVars, verifierVars, detectorVars, analysisVars>>

----------------------------------------------------------------------------
(* Bounds of the model *)

MaxTasks == 2       \* add_task calls in SpecGraph
MaxEdges == 1       \* add_dependency calls in SpecGraph
MaxClock == 2       \* the clock saturates here
MaxDispatch == 2    \* dispatch_count saturates here
MaxCount == 1       \* the agents' counters saturate here
MaxQueue == 1       \* entries of an agent queue that are tracked

Min(a, b) == IF a < b THEN a ELSE b
Range(s) == {s[i] : i \in 1..Len(s)}
EmptyMap == [x \in {} |-> x]
Put(m, k, v) == [x \in DOMAIN m \cup {k} |-> IF x = k THEN v ELSE m[x]]

----------------------------------------------------------------------------
(* models/task.py *)

\* TaskStatus
PENDING == "pending"
RUNNING == "running"
COMPLETED == "completed"
FAILED == "failed"
CANCELLED == "cancelled"
TaskStatus == {PENDING, RUNNING, COMPLETED, FAILED, CANCELLED}

\* TaskType; a Task accepts any value as its type (tests use "unknown_type")
PLAN == "plan"
RETRIEVE == "retrieve"
ANALYZE == "analyze"
COMPLIANCE_CHECK == "compliance_check"
SYNTHESIZE == "synthesize"
VERIFY == "verify"
TaskType == {PLAN, RETRIEVE, ANALYZE, COMPLIANCE_CHECK, SYNTHESIZE, VERIFY}

\* Task(id, type, payload, priority, dependencies, status); payload as its key set
Task(id, type, payload, priority, dependencies, status) ==
    [id |-> id, type |-> type, payload |-> payload, priority |-> priority,
     dependencies |-> dependencies, status |-> status]

\* TaskGraph.add_task: append, nothing else
add_task(ts, task) == Append(ts, task)

\* TaskGraph.add_dependency: append the edge, nothing else
add_dependency(es, from_task_id, to_task_id) == Append(es, <<from_task_id, to_task_id>>)

\* the inner loop of get_ready_tasks: every edge into the task comes from a completed id
dependencies_met(ts, es, completed_task_ids, i) ==
    \A k \in 1..Len(es) :
        ~(es[k][2] = ts[i].id /\ es[k][1] \notin completed_task_ids)

\* the outer loop of get_ready_tasks: positions of the pending tasks whose
\* dependencies are met, in list order
RECURSIVE ReadyFrom(_, _, _, _)
ReadyFrom(ts, es, completed_task_ids, i) ==
    IF i > Len(ts) THEN <<>>
    ELSE LET rest == ReadyFrom(ts, es, completed_task_ids, i + 1)
         IN  IF ts[i].status # PENDING THEN rest
             ELSE IF dependencies_met(ts, es, completed_task_ids, i)
                  THEN <<i>> \o rest
                  ELSE rest

\* sorted(ready_tasks, key=priority, reverse=True): stable, higher priority first
RECURSIVE InsertByPriority(_, _, _)
InsertByPriority(ts, sorted, i) ==
    IF sorted = <<>> THEN <<i>>
    ELSE IF ts[Head(sorted)].priority >= ts[i].priority
         THEN <<Head(sorted)>> \o InsertByPriority(ts, Tail(sorted), i)
         ELSE <<i>> \o sorted

RECURSIVE SortByPriority(_, _, _)
SortByPriority(ts, unsorted, sorted) ==
    IF unsorted = <<>> THEN sorted
    ELSE SortByPriority(ts, Tail(unsorted), InsertByPriority(ts, sorted, Head(unsorted)))

\* TaskGraph.get_ready_tasks
get_ready_tasks(ts, es, completed_task_ids) ==
    SortByPriority(ts, ReadyFrom(ts, es, completed_task_ids, 1), <<>>)

\* is_complete changed to skip the tasks whose status is not pending
is_complete_of_pending(ts, completed_task_ids) ==
    \A i \in 1..Len(ts) : ts[i].status = PENDING => ts[i].id \in completed_task_ids

\* TaskGraph.is_complete
is_complete(ts, completed_task_ids) ==
    \A i \in 1..Len(ts) : ts[i].id \in completed_task_ids

\* TaskResult(task_id, success, data, error, completed_at, agent_name); data as its key set
TaskResult(task_id, success, data, error, agent_name, completed_at) ==
    [task_id |-> task_id, success |-> success, data |-> data, error |-> error,
     agent_name |-> agent_name, completed_at |-> completed_at]

None == "None"

\* an exception, and str() of it: its type and the task id its message names
Error(type, task_id) == [type |-> type, task_id |-> task_id]
NoError == Error(None, None)

\* a variable that holds no TaskResult yet
Unset == [unset |-> TRUE]

\* no call of the verifier, the detector or the analysis agent has been made
InitConsensus == consensus = Unset /\ human_review = Unset
InitVerifier == pattern = Unset /\ consensus_threshold = 0 /\ verification_results = <<>>
InitDetector == transactions = <<>> /\ patterns = <<>>
InitAnalysis == analysis_results = Unset /\ suspicious_patterns = <<>>
InitCalls ==
    /\ prepared_payload = {}
    /\ InitConsensus
    /\ InitVerifier
    /\ InitDetector
    /\ InitAnalysis

----------------------------------------------------------------------------
(* agents/base.py and the agents' validate_input overrides *)

\* Orchestrator._initialize_agents
Agents == {"planner", "retriever", "analysis", "compliance", "verifier", "synthesizer"}

\* validate_input of each agent: BaseAgent's check (a non-empty payload), then
\* the agent's required keys
validate_input(agent, payload) ==
    /\ payload # {}
    /\ CASE agent = "planner" -> "query" \in payload
         [] agent = "retriever" -> "query" \in payload
         [] agent = "analysis" -> "transactions" \in payload
         [] agent = "compliance" -> "suspicious_patterns" \in payload
         [] agent = "verifier" -> "suspicious_patterns" \in payload
         [] agent = "synthesizer" ->
                payload \cap {"analysis_results", "compliance_results",
                              "verification_results"} # {}
         [] OTHER -> TRUE

\* handle_error changed to let the exception through instead of building a
\* failed TaskResult from it
handle_error_reraising(agent, task_id, error, at) == error

\* BaseAgent.handle_error: a failed TaskResult carrying str(error)
handle_error(agent, task_id, error, at) ==
    TaskResult(task_id, FALSE, {}, error, agent, at)

\* what a call of process_task can do: return a successful TaskResult, return a
\* failed one (the agents' own except branches return handle_error), or raise
ProcessOutcomes == {"success", "failure", "raise"}

\* _process_task_with_logging without lines 100-101: process_task is called
\* whatever validate_input says
process_task_with_logging_unvalidated(agent, task, outcome, at) ==
    CASE outcome = "success" ->
             TaskResult(task.id, TRUE, {"report"}, NoError, agent, at)
      [] OTHER ->
             handle_error(agent, task.id, Error("Exception", task.id), at)

\* the body of BaseAgent._process_task_with_logging: the value its local
\* `result` ends with
process_task_with_logging(agent, task, outcome, at) ==
    IF ~validate_input(agent, task.payload)
    THEN handle_error(agent, task.id, Error("ValueError", task.id), at)
    ELSE CASE outcome = "success" ->
                TaskResult(task.id, TRUE, {"report"}, NoError, agent, at)
           [] OTHER ->
                handle_error(agent, task.id, Error("Exception", task.id), at)

\* Orchestrator.start, lines 53-61: every agent's worker loop is started
Start ==
    /\ \E a \in Agents : ~is_running[a]
    /\ is_running' = [a \in Agents |-> TRUE]
    /\ UNCHANGED <<graphVars, queryVars, runVars, task_queue, processed_tasks,
                   failed_tasks, process_calls, agent_results, callVars>>

\* one turn of BaseAgent.start's loop: take the next queued task and run
\* _process_task_with_logging on it; the result stays local to that method
AgentProcess(a) ==
    /\ is_running[a]
    /\ task_queue[a] # <<>>
    /\ LET i == Head(task_queue[a])
           valid == validate_input(a, tasks[i].payload)
       IN  \E outcome \in ProcessOutcomes :
             /\ (~valid => outcome = "raise")
             /\ task_queue' = [task_queue EXCEPT ![a] = Tail(@)]
             /\ process_calls' =
                    IF valid THEN [process_calls EXCEPT ![i] = Min(@ + 1, MaxCount)]
                    ELSE process_calls
             /\ processed_tasks' =
                    IF valid /\ outcome # "raise"
                    THEN [processed_tasks EXCEPT ![a] = Min(@ + 1, MaxCount)]
                    ELSE processed_tasks
             /\ failed_tasks' =
                    IF valid /\ outcome # "raise" THEN failed_tasks
                    ELSE [failed_tasks EXCEPT ![a] = Min(@ + 1, MaxCount)]
             /\ agent_results' =
                    [agent_results EXCEPT
                        ![i] = process_task_with_logging(a, tasks[i], outcome, now)]
    /\ UNCHANGED <<graphVars, queryVars, runVars, is_running, callVars>>

----------------------------------------------------------------------------
(* main.py: Orchestrator._execute_task_graph and what it calls *)

\* Orchestrator._get_agent_for_task
get_agent_for_task(type) ==
    CASE type = PLAN -> "planner"
      [] type = RETRIEVE -> "retriever"
      [] type = ANALYZE -> "analysis"
      [] type = COMPLIANCE_CHECK -> "compliance"
      [] type = VERIFY -> "verifier"
      [] type = SYNTHESIZE -> "synthesizer"
      [] OTHER -> "unknown"

\* the loop of _prepare_task_payload without the test of line 185
RECURSIVE MergeDependenciesUnconditionally(_, _, _)
MergeDependenciesUnconditionally(payload, dependencies, results) ==
    IF dependencies = <<>> THEN payload
    ELSE LET dep_id == Head(dependencies)
             merged == IF dep_id \in DOMAIN results
                       THEN payload \cup results[dep_id].data
                       ELSE payload
         IN  MergeDependenciesUnconditionally(merged, Tail(dependencies), results)

\* Orchestrator._prepare_task_payload: the task's payload, the data of every
\* dependency with a successful recorded result, and original_query
RECURSIVE MergeDependencies(_, _, _)
MergeDependencies(payload, dependencies, results) ==
    IF dependencies = <<>> THEN payload
    ELSE LET dep_id == Head(dependencies)
             merged == IF dep_id \in DOMAIN results /\ results[dep_id].success
                       THEN payload \cup results[dep_id].data
                       ELSE payload
         IN  MergeDependencies(merged, Tail(dependencies), results)

prepare_task_payload(task, results) ==
    MergeDependencies(task.payload, task.dependencies, results) \cup {"original_query"}

\* the exception _wait_for_task_completion raises; its message names the task
TimeoutError(task_id) == Error("TimeoutError", task_id)

\* isinstance(result, Exception)
IsException(result) == "type" \in DOMAIN result

\* _wait_for_task_completion changed to hand the timeout back as a failed
\* TaskResult instead of raising it
wait_for_task_completion_returning(task_id) ==
    TaskResult(task_id, FALSE, {}, TimeoutError(task_id), None, 0)

\* Orchestrator._wait_for_task_completion: the polling loop looks at nothing and
\* the method has no return statement; it ends by raising TimeoutError
wait_for_task_completion(task_id) == TimeoutError(task_id)

\* lines 134-146: the payloads of the round's ready tasks, assigned in order
RECURSIVE PreparePayloads(_, _, _)
PreparePayloads(ts, ready, results) ==
    IF ready = <<>> THEN ts
    ELSE LET i == Head(ready)
         IN  PreparePayloads(
                 [ts EXCEPT ![i].payload = prepare_task_payload(ts[i], results)],
                 Tail(ready), results)

\* lines 134-146: one asyncio task per ready task whose agent is registered
RECURSIVE CreateExecutionTasks(_, _)
CreateExecutionTasks(ts, ready) ==
    IF ready = <<>> THEN <<>>
    ELSE LET i == Head(ready)
             agent_name == get_agent_for_task(ts[i].type)
             rest == CreateExecutionTasks(ts, Tail(ready))
         IN  IF agent_name \in Agents
             THEN <<[task |-> i, agent_name |-> agent_name, state |-> "created",
                     result |-> Unset]>> \o rest
             ELSE rest

\* lines 153-163: results[i] is recorded under ready_tasks[i].id; an exception
\* becomes a failed TaskResult, anything else is stored and marked completed
RECURSIVE ProcessResults(_, _, _, _, _, _)
ProcessResults(ts, ready, results, i, acc, at) ==
    IF i > Len(results) THEN acc
    ELSE LET id == ts[ready[i]].id
             result == results[i]
             next ==
                 IF IsException(result)
                 THEN [task_results |->
                           Put(acc.task_results, id,
                               TaskResult(id, FALSE, {}, result, None, at)),
                       completed_tasks |-> acc.completed_tasks]
                 ELSE [task_results |-> Put(acc.task_results, id, result),
                       completed_tasks |-> acc.completed_tasks \cup {id}]
         IN  ProcessResults(ts, ready, results, i + 1, next, at)

\* lines 165-175: the report of the first synthesize task, or the exception
FailedToGenerate == "Exception: Failed to generate final report"

final_outcome(ts, results) ==
    LET synthesizer_tasks == SelectSeq(ts, LAMBDA t : t.type = SYNTHESIZE)
    IN  IF /\ synthesizer_tasks # <<>>
           /\ synthesizer_tasks[1].id \in DOMAIN results
           /\ results[synthesizer_tasks[1].id].success
           /\ "report" \in results[synthesizer_tasks[1].id].data
        THEN "report"
        ELSE FailedToGenerate

\* line 124 and lines 126-130: the loop test, then the ready tasks of the round
Schedule ==
    /\ pc = "scheduling"
    /\ complete' = is_complete(tasks, completed_tasks)
    /\ IF complete'
       THEN /\ pc' = "extract"
            /\ UNCHANGED ready_tasks
       ELSE /\ ready_tasks' = get_ready_tasks(tasks, edges, completed_tasks)
            /\ pc' = IF ready_tasks' = <<>> THEN "extract" ELSE "dispatching"
    /\ UNCHANGED <<graphVars, completed_tasks, task_results, execution_tasks, raised,
                   now, dispatch_count, agentVars, callVars>>

\* lines 133-149: the for loop over the ready tasks; with no execution task the
\* while loop goes straight to its next iteration
Dispatch ==
    /\ pc = "dispatching"
    /\ tasks' = PreparePayloads(tasks, ready_tasks, task_results)
    /\ execution_tasks' = CreateExecutionTasks(tasks, ready_tasks)
    /\ pc' = IF execution_tasks' = <<>> THEN "scheduling" ELSE "gathering"
    /\ UNCHANGED <<edges, queryVars, task_results, raised, now, dispatch_count,
                   agentVars, callVars>>

\* _execute_task_with_agent, lines 208-211: the task is put on the agent's queue.
\* The event loop starts the round's asyncio tasks in creation order, and
\* Queue.put on an unbounded queue does not suspend.
SubmitTask(k) ==
    /\ pc = "gathering"
    /\ k \in 1..Len(execution_tasks)
    /\ execution_tasks[k].state = "created"
    /\ \A j \in 1..(k - 1) : execution_tasks[j].state # "created"
    /\ LET e == execution_tasks[k]
       IN  /\ task_queue' =
                 [task_queue EXCEPT
                     ![e.agent_name] =
                         IF Len(@) < MaxQueue THEN Append(@, e.task) ELSE @]
           /\ dispatch_count' =
                 [dispatch_count EXCEPT ![e.task] = Min(@ + 1, MaxDispatch)]
           /\ execution_tasks' = [execution_tasks EXCEPT ![k].state = "waiting"]
    /\ UNCHANGED <<graphVars, queryVars, pc, task_results, raised, now, is_running,
                   processed_tasks, failed_tasks, process_calls, agent_results,
                   callVars>>

\* _execute_task_with_agent, line 214: the wait for the task's completion ends.
\* Every task of the round has been started long before the first wait is over,
\* and the waits end in the order they began.
WaitForTaskCompletion(k) ==
    /\ pc = "gathering"
    /\ k \in 1..Len(execution_tasks)
    /\ execution_tasks[k].state = "waiting"
    /\ \A j \in 1..Len(execution_tasks) : execution_tasks[j].state # "created"
    /\ \A j \in 1..(k - 1) : execution_tasks[j].state = "done"
    /\ execution_tasks' =
           [execution_tasks EXCEPT
               ![k].state = "done",
               ![k].result = wait_for_task_completion(tasks[execution_tasks[k].task].id)]
    /\ UNCHANGED <<graphVars, queryVars, pc, task_results, raised, now, dispatch_count,
                   agentVars, callVars>>

\* lines 150-163 run without awaiting the gather of line 151
CollectWithoutGather ==
    /\ pc = "gathering"
    /\ now' = Min(now + 1, MaxClock)
    /\ LET results == [k \in 1..Len(execution_tasks) |-> execution_tasks[k].result]
           out == ProcessResults(tasks, ready_tasks, results, 1,
                                 [task_results |-> task_results,
                                  completed_tasks |-> completed_tasks], now')
       IN  /\ task_results' = out.task_results
           /\ completed_tasks' = out.completed_tasks
    /\ execution_tasks' = <<>>
    /\ pc' = "scheduling"
    /\ UNCHANGED <<graphVars, ready_tasks, complete, raised, dispatch_count, agentVars,
                   callVars>>

\* lines 150-163: gather has returned; the results are processed in order
Collect ==
    /\ pc = "gathering"
    /\ \A k \in 1..Len(execution_tasks) : execution_tasks[k].state = "done"
    /\ now' = Min(now + 1, MaxClock)
    /\ LET results == [k \in 1..Len(execution_tasks) |-> execution_tasks[k].result]
           out == ProcessResults(tasks, ready_tasks, results, 1,
                                 [task_results |-> task_results,
                                  completed_tasks |-> completed_tasks], now')
       IN  /\ task_results' = out.task_results
           /\ completed_tasks' = out.completed_tasks
    /\ execution_tasks' = <<>>
    /\ pc' = "scheduling"
    /\ UNCHANGED <<graphVars, ready_tasks, complete, raised, dispatch_count, agentVars,
                   callVars>>

\* lines 165-175: after the loop
Extract ==
    /\ pc = "extract"
    /\ raised' = final_outcome(tasks, task_results)
    /\ pc' = "done"
    /\ UNCHANGED <<graphVars, queryVars, task_results, execution_tasks, now,
                   dispatch_count, agentVars, callVars>>

----------------------------------------------------------------------------
(* agents/verifier.py *)

\* Confidences, scores and thresholds are exact numbers, held as multiples of
\* 1/600000: products by tenths and the mean of two or three values stay whole.
Hundredths(n) == n * 6000

\* x * 0.8, x * 1.2, ...: the product of x with a number of tenths
Times(x, tenths) == (x * tenths) \div 10

\* the three methods without line 124, 166 or 204
Unclamped(x) == x

\* max(0.0, min(1.0, x))
Clamp(x) == IF x > Hundredths(100) THEN Hundredths(100)
            ELSE IF x < 0 THEN 0 ELSE x

RECURSIVE Sum(_)
Sum(seq) == IF seq = <<>> THEN 0 ELSE Head(seq) + Sum(Tail(seq))

\* `word in text.lower()` on the pattern types, indicators and detection methods
\* that the analysis agent writes (analysis.py:137-145, 154-162, 186-218)
Occurrences ==
    {<<"structuring", "structuring">>, <<"layering", "layering">>,
     <<"integration", "integration">>,
     <<"threshold", "Multiple transactions under reporting threshold">>,
     <<"chain", "Complex transaction chain">>,
     <<"isolation_forest", "isolation_forest">>,
     <<"statistical_analysis", "statistical_analysis">>}

Occurs(word, text) == <<word, text>> \in Occurrences

\* random.uniform(-bound, bound) of the module-level generator, which nothing
\* seeds: any value of the range, taken here at its two ends (the scores are
\* monotone in it)
Uniform(bound) == {0 - bound, bound}

\* VerifierAgent._statistical_verification
statistical_verification(p, jitter) ==
    LET base == Times(p.confidence, 8)
        by_type == IF Occurs("structuring", p.pattern_type) THEN Times(base, 12)
                   ELSE IF Occurs("layering", p.pattern_type) THEN Times(base, 9)
                   ELSE base
        by_amount == IF p.amount_involved > 100000 THEN Times(by_type, 11)
                     ELSE IF p.amount_involved < 1000 THEN Times(by_type, 8)
                     ELSE by_type
        statistical_score == Clamp(by_amount + jitter)
    IN  [verification_method |-> "statistical", confidence |-> statistical_score,
         verified |-> statistical_score > Hundredths(60)]

\* VerifierAgent._rule_based_verification
rule_based_verification(p, jitter) ==
    LET by_indicators == IF Len(p.indicators) >= 3 THEN Hundredths(20)
                         ELSE IF Len(p.indicators) >= 2 THEN Hundredths(10)
                         ELSE 0
        by_risk == IF p.risk_level = "high" THEN Hundredths(20)
                   ELSE IF p.risk_level = "critical" THEN Hundredths(30)
                   ELSE 0
        by_structuring ==
            IF /\ Occurs("structuring", p.pattern_type)
               /\ \E k \in 1..Len(p.indicators) : Occurs("threshold", p.indicators[k])
            THEN Hundredths(20) ELSE 0
        by_layering ==
            IF /\ Occurs("layering", p.pattern_type)
               /\ \E k \in 1..Len(p.indicators) : Occurs("chain", p.indicators[k])
            THEN Hundredths(20) ELSE 0
        rule_score == Clamp(Hundredths(50) + by_indicators + by_risk + by_structuring
                            + by_layering + jitter)
    IN  [verification_method |-> "rule_based", confidence |-> rule_score,
         verified |-> rule_score > Hundredths(60)]

\* VerifierAgent._behavioral_verification
behavioral_verification(p, jitter) ==
    LET by_entities == IF Len(p.entity_involved) > 1 THEN Hundredths(10) ELSE 0
        by_method == IF Occurs("isolation_forest", p.detection_method) THEN Hundredths(10)
                     ELSE IF Occurs("statistical_analysis", p.detection_method)
                          THEN Hundredths(5)
                          ELSE 0
        by_structuring == IF Occurs("structuring", p.pattern_type) THEN Hundredths(10) ELSE 0
        by_layering == IF Occurs("layering", p.pattern_type) THEN Hundredths(15) ELSE 0
        behavioral_score == Clamp(Hundredths(60) + by_entities + by_method + by_structuring
                                  + by_layering + jitter)
    IN  [verification_method |-> "behavioral", confidence |-> behavioral_score,
         verified |-> behavioral_score > Hundredths(60)]

\* _calculate_consensus with `>` in place of `>=` at line 223
calculate_consensus_strictly(method_results, threshold) ==
    LET verifications == {method_results[k].verified : k \in 1..Len(method_results)}
        confidences == [k \in 1..Len(method_results) |-> method_results[k].confidence]
        consensus_score == Sum(confidences) \div Len(confidences)
        consensus_reached == consensus_score > threshold
    IN  [consensus_reached |-> consensus_reached,
         consensus_score |-> consensus_score,
         disagreement_reasons |->
             (IF ~consensus_reached THEN <<"Consensus score below threshold">> ELSE <<>>)
             \o (IF Cardinality(verifications) > 1
                 THEN <<"Agents disagree on verification result">> ELSE <<>>)]

\* _calculate_consensus without lines 231-232
calculate_consensus_by_score(method_results, threshold) ==
    LET confidences == [k \in 1..Len(method_results) |-> method_results[k].confidence]
        consensus_score == Sum(confidences) \div Len(confidences)
        consensus_reached == consensus_score >= threshold
    IN  [consensus_reached |-> consensus_reached,
         consensus_score |-> consensus_score,
         disagreement_reasons |->
             IF ~consensus_reached THEN <<"Consensus score below threshold">> ELSE <<>>]

\* VerifierAgent._calculate_consensus; the results of the methods in dict order
calculate_consensus(method_results, threshold) ==
    LET verifications == {method_results[k].verified : k \in 1..Len(method_results)}
        confidences == [k \in 1..Len(method_results) |-> method_results[k].confidence]
        consensus_score == Sum(confidences) \div Len(confidences)
        consensus_reached == consensus_score >= threshold
    IN  [consensus_reached |-> consensus_reached,
         consensus_score |-> consensus_score,
         disagreement_reasons |->
             (IF ~consensus_reached THEN <<"Consensus score below threshold">> ELSE <<>>)
             \o (IF Cardinality(verifications) > 1
                 THEN <<"Agents disagree on verification result">> ELSE <<>>)]

\* VerifierAgent._determine_human_review_needed
high_risk_patterns == <<"structuring", "layering", "integration">>

\* _determine_human_review_needed without lines 246-249
determine_human_review_needed_by_scores(consensus_reached, consensus_score, pattern_type, original_confidence) ==
    IF consensus_reached /\ consensus_score > Hundredths(80) THEN FALSE
    ELSE IF ~consensus_reached THEN TRUE
    ELSE IF original_confidence > Hundredths(80) /\ consensus_score < Hundredths(70)
         THEN TRUE
    ELSE FALSE

determine_human_review_needed(consensus_reached, consensus_score, pattern_type, original_confidence) ==
    IF consensus_reached /\ consensus_score > Hundredths(80) THEN FALSE
    ELSE IF ~consensus_reached THEN TRUE
    ELSE IF \E k \in 1..Len(high_risk_patterns) :
                Occurs(high_risk_patterns[k], pattern_type)
         THEN TRUE
    ELSE IF original_confidence > Hundredths(80) /\ consensus_score < Hundredths(70)
         THEN TRUE
    ELSE FALSE

\* VerifierAgent._verify_pattern; jitter holds the three random.uniform draws
verify_pattern(p, threshold, jitter) ==
    LET method_results == <<statistical_verification(p, jitter[1]),
                            rule_based_verification(p, jitter[2]),
                            behavioral_verification(p, jitter[3])>>
        c == calculate_consensus(method_results, threshold)
    IN  [pattern_id |-> p.id,
         agent_results |-> method_results,
         consensus_reached |-> c.consensus_reached,
         consensus_score |-> c.consensus_score,
         disagreement_reasons |-> c.disagreement_reasons,
         requires_human_review |->
             determine_human_review_needed(c.consensus_reached, c.consensus_score,
                                           p.pattern_type, p.confidence)]

----------------------------------------------------------------------------
(* Spec: one call of _execute_task_graph *)

\* the graphs handed to _execute_task_graph: up to three tasks with their
\* dependency lists, built as PlannerAgent._create_default_plan and the tests
\* build them (every dependency also added as an edge, `mirrored`), or, for up
\* to two tasks, with no add_dependency call at all
RunIds == <<"A", "B", "C">>
UNKNOWN_TYPE == "unknown_type"
RunPairs == {<<"A", "B">>, <<"B", "A">>, <<"B", "C">>}

RunPayload(i) == IF i = 1 THEN {"query"} ELSE IF i = 2 THEN {"analysis_types"}
                 ELSE {"report_type"}

RECURSIVE DependenciesOf(_, _, _)
DependenciesOf(rel, id, k) ==
    IF k > Len(RunIds) THEN <<>>
    ELSE (IF <<RunIds[k], id>> \in rel THEN <<RunIds[k]>> ELSE <<>>)
         \o DependenciesOf(rel, id, k + 1)

RECURSIVE AddTasks(_, _, _, _, _)
AddTasks(ts, n, rel, lastType, planned) ==
    IF Len(ts) >= n THEN ts
    ELSE LET i == Len(ts) + 1
             type == IF i = 1 THEN RETRIEVE ELSE IF i = 2 THEN ANALYZE ELSE lastType
         IN  AddTasks(add_task(ts, Task(RunIds[i], type, RunPayload(i),
                                        IF planned THEN i ELSE 0,
                                        DependenciesOf(rel, RunIds[i], 1), PENDING)),
                      n, rel, lastType, planned)

\* PlannerAgent._create_default_plan, lines 163-165
RECURSIVE AddDependencies(_, _, _, _)
AddDependencies(es, ts, i, k) ==
    IF i > Len(ts) THEN es
    ELSE IF k > Len(ts[i].dependencies) THEN AddDependencies(es, ts, i + 1, 1)
         ELSE AddDependencies(add_dependency(es, ts[i].dependencies[k], ts[i].id),
                              ts, i, k + 1)

InitAgents ==
    /\ is_running = [a \in Agents |-> FALSE]
    /\ task_queue = [a \in Agents |-> <<>>]
    /\ processed_tasks = [a \in Agents |-> 0]
    /\ failed_tasks = [a \in Agents |-> 0]

Init ==
    /\ \E n \in 0..Len(RunIds), rel \in SUBSET RunPairs,
          lastType \in {SYNTHESIZE, UNKNOWN_TYPE}, planned \in BOOLEAN,
          mirrored \in BOOLEAN :
         /\ \A p \in rel : \E i, j \in 1..n : p = <<RunIds[i], RunIds[j]>>
         /\ (~mirrored => n < Len(RunIds))
         /\ tasks = AddTasks(<<>>, n, rel, lastType, planned)
         /\ edges = IF mirrored THEN AddDependencies(<<>>, tasks, 1, 1) ELSE <<>>
    /\ completed_tasks = {}
    /\ ready_tasks = <<>>
    /\ complete = FALSE
    /\ pc = "scheduling"
    /\ task_results = EmptyMap
    /\ execution_tasks = <<>>
    /\ raised = "none"
    /\ now = 0
    /\ dispatch_count = [i \in 1..Len(tasks) |-> 0]
    /\ process_calls = [i \in 1..Len(tasks) |-> 0]
    /\ agent_results = [i \in 1..Len(tasks) |-> Unset]
    /\ InitCalls
    /\ InitAgents

Next ==
    \/ Schedule
    \/ Dispatch
    \/ \E k \in 1..Len(execution_tasks) : SubmitTask(k)
    \/ \E k \in 1..Len(execution_tasks) : WaitForTaskCompletion(k)
    \/ Collect
    \/ Extract
    \/ Start
    \/ \E a \in Agents : AgentProcess(a)

Spec == Init /\ [][Next]_vars

----------------------------------------------------------------------------
(* SpecGraph: a TaskGraph under add_task, add_dependency and its two queries *)

GraphIds == {"A", "B"}
Priorities == {0, 1}
GraphStatuses == {PENDING, COMPLETED}
DependencyLists == {<<>>, <<"A">>}

InitGraph ==
    /\ tasks = <<>>
    /\ edges = <<>>
    /\ completed_tasks = {}
    /\ ready_tasks = <<>>
    /\ complete = FALSE
    /\ pc = "build"
    /\ task_results = EmptyMap
    /\ execution_tasks = <<>>
    /\ raised = "none"
    /\ now = 0
    /\ dispatch_count = <<>>
    /\ process_calls = <<>>
    /\ agent_results = <<>>
    /\ InitCalls
    /\ InitAgents

\* graph.add_task(Task(id=..., priority=..., dependencies=..., status=...))
AddTask ==
    /\ pc \in {"build", "get_ready_tasks", "is_complete"}
    /\ Len(tasks) < MaxTasks
    /\ \E id \in GraphIds, priority \in Priorities, dependencies \in DependencyLists,
          status \in GraphStatuses :
         tasks' = add_task(tasks, Task(id, PLAN, {}, priority, dependencies, status))
    /\ pc' = "build"
    /\ completed_tasks' = {}
    /\ ready_tasks' = <<>>
    /\ complete' = FALSE
    /\ UNCHANGED <<edges, task_results, execution_tasks, raised, now, dispatch_count,
                   agentVars, callVars>>

\* graph.add_dependency(from_task_id, to_task_id)
AddDependency ==
    /\ pc \in {"build", "get_ready_tasks", "is_complete"}
    /\ Len(edges) < MaxEdges
    /\ \E from_task_id \in GraphIds, to_task_id \in GraphIds :
         edges' = add_dependency(edges, from_task_id, to_task_id)
    /\ pc' = "build"
    /\ completed_tasks' = {}
    /\ ready_tasks' = <<>>
    /\ complete' = FALSE
    /\ UNCHANGED <<tasks, task_results, execution_tasks, raised, now, dispatch_count,
                   agentVars, callVars>>

\* graph.get_ready_tasks(completed_task_ids): the argument and the value returned
GetReadyTasks ==
    /\ pc \in {"build", "get_ready_tasks", "is_complete"}
    /\ \E completed_task_ids \in SUBSET GraphIds :
         /\ completed_tasks' = completed_task_ids
         /\ ready_tasks' = get_ready_tasks(tasks, edges, completed_task_ids)
    /\ pc' = "get_ready_tasks"
    /\ complete' = FALSE
    /\ UNCHANGED <<graphVars, task_results, execution_tasks, raised, now, dispatch_count,
                   agentVars, callVars>>

\* graph.is_complete(completed_task_ids): the argument and the value returned
IsComplete ==
    /\ pc \in {"build", "get_ready_tasks", "is_complete"}
    /\ \E completed_task_ids \in SUBSET GraphIds :
         /\ completed_tasks' = completed_task_ids
         /\ complete' = is_complete(tasks, completed_task_ids)
    /\ pc' = "is_complete"
    /\ ready_tasks' = <<>>
    /\ UNCHANGED <<graphVars, task_results, execution_tasks, raised, now, dispatch_count,
                   agentVars, callVars>>

NextGraph == AddTask \/ AddDependency \/ GetReadyTasks \/ IsComplete

SpecGraph == InitGraph /\ [][NextGraph]_vars

----------------------------------------------------------------------------
(* SpecPayload: _prepare_task_payload called on a task and a results map *)

\* the ids, payload keys and result data keys of test_prepare_task_payload
DependencyIds == <<"task_1", "task_2", "task_3">>
OwnKeys == {"analysis_type", "original_query"}
DataKeys == {"transactions", "patterns"}

\* the results maps: each dependency id absent, or with a successful or a failed
\* TaskResult that carries data
ResultsMaps ==
    UNION {[ids -> BOOLEAN \X SUBSET DataKeys] : ids \in SUBSET Range(DependencyIds)}

InitPayload ==
    /\ \E own \in SUBSET OwnKeys, n \in 0..Len(DependencyIds), results \in ResultsMaps :
         /\ tasks = <<Task("task", ANALYZE, own, 0, SubSeq(DependencyIds, 1, n), PENDING)>>
         /\ task_results =
                [id \in DOMAIN results |->
                    TaskResult(id, results[id][1], results[id][2],
                               IF results[id][1] THEN NoError ELSE Error("Exception", id),
                               None, 0)]
    /\ edges = <<>>
    /\ completed_tasks = {}
    /\ ready_tasks = <<>>
    /\ complete = FALSE
    /\ pc = "call"
    /\ execution_tasks = <<>>
    /\ raised = "none"
    /\ now = 0
    /\ dispatch_count = <<0>>
    /\ process_calls = <<0>>
    /\ agent_results = <<Unset>>
    /\ InitCalls
    /\ InitAgents

\* payload = await orchestrator._prepare_task_payload(task, task_results, query):
\* the method works on a copy of task.payload and only reads the results map
PrepareTaskPayload ==
    /\ pc = "call"
    /\ prepared_payload' = prepare_task_payload(tasks[1], task_results)
    /\ pc' = "prepare_task_payload"
    /\ UNCHANGED <<graphVars, queryVars, task_results, execution_tasks, raised, now,
                   dispatch_count, agentVars, consensusVars, verifierVars, detectorVars,
                   analysisVars>>

NextPayload == PrepareTaskPayload

SpecPayload == InitPayload /\ [][NextPayload]_vars

----------------------------------------------------------------------------
(* SpecConsensus: _calculate_consensus and _determine_human_review_needed, *)
(* each called on its own arguments as test_calculate_consensus does       *)

MaxMethods == 3     \* entries of the agent_results argument

\* the pattern types the repository writes, and the default of pattern.get
PatternTypes == {"structuring", "layering", "integration", "rapid_movement",
                 "unusual_amounts", "anomaly_detection", "unknown"}

ConfidenceGrid == {Hundredths(c) : c \in {30, 70, 80, 85, 90, 95}}
ScoreGrid == {Hundredths(c) : c \in {65, 70, 75, 80, 81, 90}}
OriginalConfidences == {Hundredths(c) : c \in {50, 80, 90}}
Thresholds == {Hundredths(60), Hundredths(80)}

MethodResults == [verified : BOOLEAN, confidence : ConfidenceGrid]

InitConsensusCalls ==
    /\ tasks = <<>>
    /\ edges = <<>>
    /\ completed_tasks = {}
    /\ ready_tasks = <<>>
    /\ complete = FALSE
    /\ pc = "call"
    /\ task_results = EmptyMap
    /\ execution_tasks = <<>>
    /\ raised = "none"
    /\ now = 0
    /\ dispatch_count = <<>>
    /\ process_calls = <<>>
    /\ agent_results = <<>>
    /\ InitAgents
    /\ InitCalls

\* agent._calculate_consensus(agent_results, threshold)
CalculateConsensus ==
    /\ pc = "call"
    /\ \E n \in 1..MaxMethods, threshold \in Thresholds :
         \E method_results \in [1..n -> MethodResults] :
             consensus' = [agent_results |-> method_results, threshold |-> threshold,
                           returned |-> calculate_consensus(method_results, threshold)]
    /\ pc' = "calculate_consensus"
    /\ UNCHANGED <<graphVars, queryVars, task_results, execution_tasks, raised, now,
                   dispatch_count, agentVars, prepared_payload, human_review,
                   verifierVars, detectorVars, analysisVars>>

\* agent._determine_human_review_needed(consensus_reached, consensus_score,
\*                                      pattern_type, original_confidence)
DetermineHumanReviewNeeded ==
    /\ pc = "call"
    /\ \E consensus_reached \in BOOLEAN, consensus_score \in ScoreGrid,
          pattern_type \in PatternTypes, original_confidence \in OriginalConfidences :
         human_review' =
             [consensus_reached |-> consensus_reached,
              consensus_score |-> consensus_score,
              pattern_type |-> pattern_type,
              original_confidence |-> original_confidence,
              returned |-> determine_human_review_needed(
                               consensus_reached, consensus_score, pattern_type,
                               original_confidence)]
    /\ pc' = "determine_human_review_needed"
    /\ UNCHANGED <<graphVars, queryVars, task_results, execution_tasks, raised, now,
                   dispatch_count, agentVars, prepared_payload, consensus,
                   verifierVars, detectorVars, analysisVars>>

NextConsensus == CalculateConsensus \/ DetermineHumanReviewNeeded

SpecConsensus == InitConsensusCalls /\ [][NextConsensus]_vars

----------------------------------------------------------------------------
(* SpecVerifier: _verify_pattern called repeatedly on one finding *)

MaxVerifications == 2   \* calls of _verify_pattern on the finding

\* the indicators analysis.py writes for a pattern type (lines 186-218)
get_pattern_indicators(pattern_type) ==
    CASE pattern_type = "structuring" ->
             <<"Multiple transactions under reporting threshold",
               "Same entity involved", "Same day transactions">>
      [] pattern_type = "layering" ->
             <<"Complex transaction chain", "Multiple entities involved",
               "Rapid movement of funds">>
      [] pattern_type = "integration" ->
             <<"Large deposit from unknown source", "Unusual transaction amount">>
      [] pattern_type = "rapid_movement" ->
             <<"Quick successive transactions", "Same entity involved">>
      [] pattern_type = "unusual_amounts" ->
             <<"Statistically significant amount", "High z-score">>
      [] OTHER -> <<>>

\* the findings handed to the verifier: those the analysis agent writes
\* (a negative confidence included, analysis.py:139) and those of the tests,
\* which carry no indicators
VerifierPatterns ==
    {[id |-> "pattern_001", pattern_type |-> type, confidence |-> confidence,
      amount_involved |-> amount,
      indicators |-> IF with_indicators THEN get_pattern_indicators(type) ELSE <<>>,
      risk_level |-> risk_level,
      entity_involved |-> entities,
      detection_method |-> IF type = "anomaly_detection" THEN "isolation_forest"
                           ELSE "statistical_analysis"] :
        type \in {"structuring", "layering", "integration", "anomaly_detection"},
        confidence \in {Hundredths(c) : c \in {0 - 10, 50, 80, 95}},
        amount \in {500, 12000, 200000},
        with_indicators \in BOOLEAN,
        risk_level \in {"medium", "high"},
        entities \in {<<"E1">>, <<"E1", "E2">>}}

InitVerifierCalls ==
    /\ tasks = <<>>
    /\ edges = <<>>
    /\ completed_tasks = {}
    /\ ready_tasks = <<>>
    /\ complete = FALSE
    /\ pc = "call"
    /\ task_results = EmptyMap
    /\ execution_tasks = <<>>
    /\ raised = "none"
    /\ now = 0
    /\ dispatch_count = <<>>
    /\ process_calls = <<>>
    /\ agent_results = <<>>
    /\ InitAgents
    /\ prepared_payload = {}
    /\ InitConsensus
    /\ InitDetector
    /\ InitAnalysis
    /\ pattern \in VerifierPatterns
    /\ consensus_threshold \in Thresholds
    /\ verification_results = <<>>

\* await self._verify_pattern(pattern, verification_method, consensus_threshold)
VerifyPattern ==
    /\ Len(verification_results) < MaxVerifications
    /\ \E jitter \in Uniform(Hundredths(10)) \X Uniform(Hundredths(5))
                     \X Uniform(Hundredths(8)) :
         verification_results' =
             Append(verification_results,
                    verify_pattern(pattern, consensus_threshold, jitter))
    /\ pc' = "verify_pattern"
    /\ UNCHANGED <<graphVars, queryVars, task_results, execution_tasks, raised, now,
                   dispatch_count, agentVars, prepared_payload, consensusVars,
                   pattern, consensus_threshold, detectorVars, analysisVars>>

NextVerifier == VerifyPattern

SpecVerifier == InitVerifierCalls /\ [][NextVerifier]_vars

----------------------------------------------------------------------------
(* SpecDetector: PatternDetector._detect_structuring on a list of transactions *)
(* utils/anomaly_detection.py                                               *)

MaxTransactions == 4    \* length of the transaction list

\* datetime.date(): the calendar day of a timestamp, its time of day dropped
date(timestamp) == timestamp.day

\* the dict key (sender, date) of a transaction
GroupKey(tx) == <<tx.sender_id, date(tx.timestamp)>>

\* the keys of sender_date_groups in insertion order
RECURSIVE SenderDateKeys(_)
SenderDateKeys(txs) ==
    IF txs = <<>> THEN <<>>
    ELSE LET earlier == SenderDateKeys(SubSeq(txs, 1, Len(txs) - 1))
             key == GroupKey(txs[Len(txs)])
         IN  IF \E k \in 1..Len(earlier) : earlier[k] = key THEN earlier
             ELSE Append(earlier, key)

\* sender_date_groups[key]
SenderDateGroup(txs, key) == SelectSeq(txs, LAMBDA tx : GroupKey(tx) = key)

\* the loop body of lines 233-249 on one group without the test of lines 234-235
structuring_of_any_group(key, txs) ==
    LET amounts == [k \in 1..Len(txs) |-> txs[k].amount]
        total_amount == Sum(amounts)
    IN  IF total_amount > 10000 /\ \A k \in 1..Len(amounts) : amounts[k] < 10000
        THEN <<[sender |-> key[1], date |-> key[2], total_amount |-> total_amount,
                transaction_count |-> Len(txs), amounts |-> amounts,
                confidence |-> Hundredths(80)]>>
        ELSE <<>>

\* the loop body of lines 233-249 on one group: the patterns it appends
structuring_of_group(key, txs) ==
    IF Len(txs) < 3 THEN <<>>
    ELSE LET amounts == [k \in 1..Len(txs) |-> txs[k].amount]
             total_amount == Sum(amounts)
         IN  IF total_amount > 10000 /\ \A k \in 1..Len(amounts) : amounts[k] < 10000
             THEN <<[sender |-> key[1], date |-> key[2], total_amount |-> total_amount,
                     transaction_count |-> Len(txs), amounts |-> amounts,
                     confidence |-> Hundredths(80)]>>
             ELSE <<>>

RECURSIVE structuring_of_groups(_, _)
structuring_of_groups(keys, txs) ==
    IF keys = <<>> THEN <<>>
    ELSE structuring_of_group(Head(keys), SenderDateGroup(txs, Head(keys)))
         \o structuring_of_groups(Tail(keys), txs)

\* PatternDetector._detect_structuring
detect_structuring(txs) == structuring_of_groups(SenderDateKeys(txs), txs)

\* the transactions drawn: two senders, two days, two times of one day, and
\* amounts below and at the reporting threshold of 10000
Timestamps == {[day |-> 1, hour |-> 9], [day |-> 1, hour |-> 17], [day |-> 2, hour |-> 9]}

Transactions ==
    {[sender_id |-> who[1], timestamp |-> who[2], amount |-> amount] :
        who \in ({"E1"} \X Timestamps) \cup {<<"E2", [day |-> 1, hour |-> 9]>>},
        amount \in {3000, 4000, 6000, 10000}}

InitDetectorCalls ==
    /\ tasks = <<>>
    /\ edges = <<>>
    /\ completed_tasks = {}
    /\ ready_tasks = <<>>
    /\ complete = FALSE
    /\ pc = "call"
    /\ task_results = EmptyMap
    /\ execution_tasks = <<>>
    /\ raised = "none"
    /\ now = 0
    /\ dispatch_count = <<>>
    /\ process_calls = <<>>
    /\ agent_results = <<>>
    /\ InitAgents
    /\ prepared_payload = {}
    /\ InitConsensus
    /\ InitVerifier
    /\ InitAnalysis
    /\ \E n \in 1..MaxTransactions : transactions \in [1..n -> Transactions]
    /\ patterns = <<>>

\* detector._detect_structuring(transactions)
DetectStructuring ==
    /\ pc = "call"
    /\ patterns' = detect_structuring(transactions)
    /\ pc' = "detect_structuring"
    /\ UNCHANGED <<graphVars, queryVars, task_results, execution_tasks, raised, now,
                   dispatch_count, agentVars, prepared_payload, consensusVars,
                   verifierVars, transactions, analysisVars>>

NextDetector == DetectStructuring

SpecDetector == InitDetectorCalls /\ [][NextDetector]_vars

----------------------------------------------------------------------------
(* SpecAnalysis: AnalysisAgent.process_task on the outputs of its detectors *)
(* agents/analysis.py                                                       *)

MaxAnalysed == 2    \* transactions of the analysed batch

\* what the three anomaly detectors say of one transaction: the isolation
\* forest's decision_function value (negative for an outlier, for which
\* predict gives -1) and the flags of the two statistical detectors
DetectorOutputs ==
    [decision : {Hundredths(0 - 30), Hundredths(10)},
     amount_anomaly : BOOLEAN, frequency_anomaly : BOOLEAN]

\* AnomalyDetector.get_anomaly_scores on a fitted model: [-score for score in scores]
get_anomaly_score(output) == 0 - output.decision

\* AnomalyDetector.detect_anomalies: pred == -1
isolation_anomaly(output) == output.decision < 0

\* AnalysisAgent._detect_anomalies: combined_anomalies
RECURSIVE detect_anomalies(_)
detect_anomalies(outputs) ==
    IF outputs = <<>> THEN <<>>
    ELSE LET i == Len(outputs)
             output == outputs[i]
             earlier == detect_anomalies(SubSeq(outputs, 1, i - 1))
         IN  IF \/ isolation_anomaly(output)
                \/ output.amount_anomaly
                \/ output.frequency_anomaly
             THEN Append(earlier,
                         [transaction_id |-> i,
                          anomaly_score |-> get_anomaly_score(output),
                          isolation_forest |-> isolation_anomaly(output),
                          amount_anomaly |-> output.amount_anomaly,
                          frequency_anomaly |-> output.frequency_anomaly,
                          amount |-> 12000, entity |-> "E1"])
             ELSE earlier

\* the patterns the five detectors of PatternDetector report, by type, with
\* the confidences they compute (anomaly_detection.py:248, 289, 309, 341, 369)
DetectedPatterns ==
    {[pattern_type |-> "structuring", confidence |-> Hundredths(80)],
     [pattern_type |-> "layering", confidence |-> Hundredths(60)],
     [pattern_type |-> "layering", confidence |-> Hundredths(90)],
     [pattern_type |-> "integration", confidence |-> Hundredths(70)],
     [pattern_type |-> "rapid_movement", confidence |-> Hundredths(80)],
     [pattern_type |-> "unusual_amounts", confidence |-> Hundredths(62)],
     [pattern_type |-> "unusual_amounts", confidence |-> Hundredths(90)]}

\* AnalysisAgent._detect_patterns: the patterns at or above the threshold
detect_patterns(detected, threshold) ==
    SelectSeq(detected, LAMBDA detected_pattern : detected_pattern.confidence >= threshold)

\* AnalysisAgent._get_anomaly_indicators
get_anomaly_indicators(anomaly) ==
    (IF anomaly.isolation_forest THEN <<"Isolation Forest anomaly">> ELSE <<>>)
    \o (IF anomaly.amount_anomaly THEN <<"Unusual transaction amount">> ELSE <<>>)
    \o (IF anomaly.frequency_anomaly THEN <<"Unusual transaction frequency">> ELSE <<>>)
    \o (IF anomaly.anomaly_score > Hundredths(80) THEN <<"High anomaly score">> ELSE <<>>)

\* min(anomaly["anomaly_score"], 1.0)
anomaly_confidence(anomaly_score) ==
    IF anomaly_score < Hundredths(100) THEN anomaly_score ELSE Hundredths(100)

\* the finding _create_suspicious_patterns makes of an anomaly (lines 135-146)
pattern_of_anomaly(anomaly) ==
    [pattern_type |-> "anomaly_detection",
     confidence |-> anomaly_confidence(anomaly.anomaly_score),
     risk_level |-> IF anomaly.anomaly_score > Hundredths(70) THEN "high" ELSE "medium",
     indicators |-> get_anomaly_indicators(anomaly),
     amount_involved |-> anomaly.amount,
     entity_involved |-> <<anomaly.entity>>,
     detection_method |-> "isolation_forest"]

\* the finding _create_suspicious_patterns makes of a detected pattern
\* (lines 152-163)
pattern_of_detected(detected_pattern) ==
    [pattern_type |-> detected_pattern.pattern_type,
     confidence |-> detected_pattern.confidence,
     risk_level |-> IF detected_pattern.confidence > Hundredths(80) THEN "high"
                    ELSE "medium",
     indicators |-> get_pattern_indicators(detected_pattern.pattern_type),
     amount_involved |-> 0,
     entity_involved |-> <<>>,
     detection_method |-> "statistical_analysis"]

\* AnalysisAgent._create_suspicious_patterns
create_suspicious_patterns(results) ==
    [k \in 1..Len(results.anomalies) |-> pattern_of_anomaly(results.anomalies[k])]
    \o [k \in 1..Len(results.patterns) |-> pattern_of_detected(results.patterns[k])]

InitAnalysisCalls ==
    /\ tasks = <<>>
    /\ edges = <<>>
    /\ completed_tasks = {}
    /\ ready_tasks = <<>>
    /\ complete = FALSE
    /\ pc = "call"
    /\ task_results = EmptyMap
    /\ execution_tasks = <<>>
    /\ raised = "none"
    /\ now = 0
    /\ dispatch_count = <<>>
    /\ process_calls = <<>>
    /\ agent_results = <<>>
    /\ InitAgents
    /\ InitCalls

\* AnalysisAgent.process_task on a batch of 1..MaxAnalysed transactions with
\* the default analysis types and thresholds
AnalysisProcessTask ==
    /\ pc = "call"
    /\ \E n \in 1..MaxAnalysed, m \in 0..1 :
         \E outputs \in [1..n -> DetectorOutputs], detected \in [1..m -> DetectedPatterns] :
             LET results == [anomalies |-> detect_anomalies(outputs),
                             patterns |-> detect_patterns(detected, Hundredths(70))]
             IN  /\ analysis_results' = results
                 /\ suspicious_patterns' = create_suspicious_patterns(results)
    /\ pc' = "process_task"
    /\ UNCHANGED <<graphVars, queryVars, task_results, execution_tasks, raised, now,
                   dispatch_count, agentVars, prepared_payload, consensusVars,
                   verifierVars, detectorVars>>

NextAnalysis == AnalysisProcessTask

SpecAnalysis == InitAnalysisCalls /\ [][NextAnalysis]_vars

----------------------------------------------------------------------------
(* SpecPlan: _prepare_task_payload on the tasks of the planner's default plan *)
(* agents/planner.py, main.py                                               *)

\* PlannerAgent._create_default_plan: the five tasks, payloads as key sets
default_plan_tasks ==
    <<Task("retrieve_task", RETRIEVE, {"query", "data_sources", "time_range"}, 1,
           <<>>, PENDING),
      Task("analyze_task", ANALYZE, {"analysis_types", "thresholds"}, 2,
           <<"retrieve_task">>, PENDING),
      Task("compliance_task", COMPLIANCE_CHECK, {"regulations", "risk_assessment"}, 3,
           <<"analyze_task">>, PENDING),
      Task("verify_task", VERIFY, {"verification_method", "consensus_threshold"}, 4,
           <<"compliance_task">>, PENDING),
      Task("synthesize_task", SYNTHESIZE, {"report_type", "include_recommendations"}, 5,
           <<"verify_task">>, PENDING)>>

\* lines 163-165: one edge per entry of a task's dependencies
default_plan_edges ==
    <<<<"retrieve_task", "analyze_task">>, <<"analyze_task", "compliance_task">>,
      <<"compliance_task", "verify_task">>, <<"verify_task", "synthesize_task">>>>

\* the keys of TaskResult.data when an agent's process_task succeeds on a task
\* of the default plan
success_data(agent) ==
    CASE agent = "retriever" -> {"transactions", "documents"}
      [] agent = "analysis" -> {"anomalies", "patterns", "suspicious_patterns"}
      [] agent = "compliance" -> {"compliance_checks", "summary"}
      [] agent = "verifier" -> {"verification_results", "summary"}
      [] agent = "synthesizer" -> {"report", "report_id", "summary"}
      [] OTHER -> {}

\* the results maps of a run of the plan: each task without a result, with its
\* agent's successful result, or with a failed one
PlanResultsMaps ==
    UNION {[ids -> BOOLEAN] :
              ids \in SUBSET {default_plan_tasks[i].id : i \in 1..Len(default_plan_tasks)}}

InitPlan ==
    /\ tasks = default_plan_tasks
    /\ edges = default_plan_edges
    /\ \E results \in PlanResultsMaps :
         task_results =
             [id \in DOMAIN results |->
                 LET i == CHOOSE i \in 1..Len(default_plan_tasks) :
                              default_plan_tasks[i].id = id
                     agent_name == get_agent_for_task(default_plan_tasks[i].type)
                 IN  IF results[id]
                     THEN TaskResult(id, TRUE, success_data(agent_name), NoError,
                                     agent_name, 0)
                     ELSE TaskResult(id, FALSE, {}, Error("Exception", id),
                                     agent_name, 0)]
    /\ completed_tasks = {}
    /\ ready_tasks = <<>>
    /\ complete = FALSE
    /\ pc = "call"
    /\ execution_tasks = <<>>
    /\ raised = "none"
    /\ now = 0
    /\ dispatch_count = [i \in 1..Len(default_plan_tasks) |-> 0]
    /\ process_calls = [i \in 1..Len(default_plan_tasks) |-> 0]
    /\ agent_results = [i \in 1..Len(default_plan_tasks) |-> Unset]
    /\ InitCalls
    /\ InitAgents

\* main.py:136 for a task of the plan:
\* task.payload = await self._prepare_task_payload(task, task_results, original_query)
PreparePlanPayload(i) ==
    /\ pc = "call"
    /\ i \in 1..Len(tasks)
    /\ prepared_payload' = prepare_task_payload(tasks[i], task_results)
    /\ tasks' = [tasks EXCEPT ![i].payload = prepared_payload']
    /\ ready_tasks' = <<i>>
    /\ pc' = "prepared"
    /\ UNCHANGED <<edges, completed_tasks, complete, task_results, execution_tasks,
                   raised, now, dispatch_count, agentVars, consensusVars, verifierVars,
                   detectorVars, analysisVars>>

NextPlan == \E i \in 1..Len(default_plan_tasks) : PreparePlanPayload(i)

SpecPlan == InitPlan /\ [][NextPlan]_vars

----------------------------------------------------------------------------
(* FairSpec: the event loop runs every coroutine that can take a step *)

Fairness ==
    /\ WF_vars(Schedule)
    /\ WF_vars(Dispatch)
    /\ \A k \in 1..Len(RunIds) : WF_vars(SubmitTask(k))
    /\ \A k \in 1..Len(RunIds) : WF_vars(WaitForTaskCompletion(k))
    /\ WF_vars(Collect)
    /\ WF_vars(Extract)
    /\ \A a \in Agents : WF_vars(AgentProcess(a))

FairSpec == Spec /\ Fairness

----------------------------------------------------------------------------
(* Claims *)

TaskIdsOf(seq) == [k \in 1..Len(seq) |-> tasks[seq[k]].id]

\* C1: every task get_ready_tasks returns has status pending and has every id of
\* its Task.dependencies list in the completed-id set it was called with.
C1_ReadyTasksHaveDependenciesCompleted ==
    pc = "get_ready_tasks" =>
        \A k \in 1..Len(ready_tasks) :
            /\ tasks[ready_tasks[k]].status = PENDING
            /\ Range(tasks[ready_tasks[k]].dependencies) \subseteq completed_tasks

\* the graph is the linear chain A -> B -> C, dependencies and edges alike
IsLinearChain ==
    /\ Len(tasks) = Len(RunIds)
    /\ \A i \in 1..Len(tasks) :
         tasks[i].dependencies = IF i = 1 THEN <<>> ELSE <<RunIds[i - 1]>>
    /\ Range(edges) = {<<"A", "B">>, <<"B", "C">>}

\* C2: on the linear chain A -> B -> C, get_ready_tasks returns exactly [A] for
\* the empty completed set, exactly [B] once A is in the completed set, exactly
\* [C] once A and B are, and is_complete holds only of the set of all three ids.
C2_LinearChainReadyTasks ==
    IsLinearChain =>
        /\ TaskIdsOf(get_ready_tasks(tasks, edges, {})) = <<"A">>
        /\ TaskIdsOf(get_ready_tasks(tasks, edges, {"A"})) = <<"B">>
        /\ TaskIdsOf(get_ready_tasks(tasks, edges, {"A", "B"})) = <<"C">>
        /\ \A S \in SUBSET Range(RunIds) :
             is_complete(tasks, S) <=> S = Range(RunIds)

\* C3: a task is dispatched to its agent only when every id in its dependencies
\* list has a recorded result in the results map.
C3_DispatchedAfterDependenciesRecorded ==
    \A k \in 1..Len(execution_tasks) :
        Range(tasks[execution_tasks[k].task].dependencies) \subseteq DOMAIN task_results

\* C4: an execution of _execute_task_graph that has dispatched a round of tasks
\* leaves its loop (Complete or Stalled), given that every dispatched task
\* finishes or times out; so it does when tasks fail or time out.
C4_LoopTerminates == (pc = "gathering") ~> (pc \in {"extract", "done"})

\* the run has ended after a scheduling step with no ready task and an
\* incomplete graph
Stalled == pc = "done" /\ ~complete

\* C5: a stalled run ends by raising a structural error, an exception other than
\* the one an ordinary run without a report ends with, and returns no report.
C5_StalledRaisesStructuralError ==
    Stalled => raised \notin {"none", "report", FailedToGenerate}

\* task j lists task i as a dependency, has an edge from it, and the recorded
\* result of task i is a failure
DependsOnFailed(i, j) ==
    /\ i \in 1..Len(tasks) /\ j \in 1..Len(tasks)
    /\ tasks[i].id \in Range(tasks[j].dependencies)
    /\ <<tasks[i].id, tasks[j].id>> \in Range(edges)
    /\ tasks[i].id \in DOMAIN task_results
    /\ ~task_results[tasks[i].id].success

\* task j has a failed result that carries a dependency-failure error, and its
\* agent's process_task was never called for it
FailedByPropagation(j) ==
    /\ j \in 1..Len(tasks)
    /\ tasks[j].id \in DOMAIN task_results
    /\ ~task_results[tasks[j].id].success
    /\ task_results[tasks[j].id].error.type = "DependencyFailureError"
    /\ process_calls[j] = 0

\* C6: when B depends on A and A's recorded result is a failure, B gets a failed
\* TaskResult with a dependency-failure error and B's process_task is not invoked.
C6_DependencyFailurePropagates ==
    \A i, j \in 1..Len(RunIds) : DependsOnFailed(i, j) ~> FailedByPropagation(j)

\* C7: during one execution each task is dispatched to its agent at most once.
C7_DispatchedAtMostOnce ==
    \A i \in 1..Len(tasks) : dispatch_count[i] <= 1

\* C8: once the results map holds a TaskResult for a task id, that entry is never
\* replaced or changed.
C8_ResultsWriteOnce ==
    [][\A id \in DOMAIN task_results :
          id \in DOMAIN task_results' /\ task_results'[id] = task_results[id]]_vars

C10_DispatchResolvesWithAgentResult ==
    \A k \in 1..Len(execution_tasks) :
        LET e == execution_tasks[k]
        IN  (/\ e.state = "done"
             /\ agent_results[e.task] # Unset
             /\ agent_results[e.task].success)
            => e.result = agent_results[e.task]

\* the agent that serves the task at position i
AgentOf(i) == get_agent_for_task(tasks[i].type)

\* C11: when an agent's validate_input returns false for a task, the agent never
\* invokes process_task for that task, and the TaskResult produced for it is a
\* failed one whose error is the invalid-input error ValueError('Invalid input
\* for task <id>').
C11_InvalidInputNeverProcessed ==
    \A i \in 1..Len(tasks) :
        (/\ AgentOf(i) \in Agents
         /\ ~validate_input(AgentOf(i), tasks[i].payload))
        => /\ process_calls[i] = 0
           /\ agent_results[i] # Unset
                => /\ ~agent_results[i].success
                   /\ agent_results[i].error = Error("ValueError", tasks[i].id)
                   /\ agent_results[i].agent_name = AgentOf(i)

\* an agent has taken a task with an invalid payload off its queue and handled it
C11_Witness ==
    \E i \in 1..Len(tasks) :
        /\ AgentOf(i) \in Agents
        /\ ~validate_input(AgentOf(i), tasks[i].payload)
        /\ dispatch_count[i] > 0
        /\ agent_results[i] # Unset
        /\ ~agent_results[i].success
        /\ failed_tasks[AgentOf(i)] > 0
        /\ process_calls[i] = 0

C13_TimeoutRecordedUnderTaskId ==
    pc = "scheduling" =>
        \A i \in 1..Len(tasks) :
            dispatch_count[i] > 0 =>
                /\ tasks[i].id \in DOMAIN task_results
                /\ ~task_results[tasks[i].id].success
                /\ task_results[tasks[i].id].error = TimeoutError(tasks[i].id)

\* task i has a registered agent, and every dependency of it, in its list or by
\* an edge, has succeeded
RunnableIndependently(i) ==
    /\ i \in 1..Len(tasks)
    /\ AgentOf(i) \in Agents
    /\ \A d \in Range(tasks[i].dependencies) :
          d \in DOMAIN task_results /\ task_results[d].success
    /\ dependencies_met(tasks, edges, completed_tasks, i)

\* task i has been dispatched and the results map has an entry for its id
DispatchedAndRecorded(i) ==
    /\ i \in 1..Len(tasks)
    /\ dispatch_count[i] > 0
    /\ tasks[i].id \in DOMAIN task_results

\* C14: whatever other tasks fail, a task whose own dependencies have succeeded
\* is eventually dispatched and gets a recorded result, given that every
\* dispatched task eventually finishes.
C14_IndependentBranchesProgress ==
    \A i \in 1..Len(RunIds) : RunnableIndependently(i) ~> DispatchedAndRecorded(i)

\* the positions of the pending tasks whose dependencies list lies within the
\* completed-id set
PendingWithDependenciesCompleted ==
    {i \in 1..Len(tasks) :
        /\ tasks[i].status = PENDING
        /\ Range(tasks[i].dependencies) \subseteq completed_tasks}

TaskIds == {tasks[i].id : i \in 1..Len(tasks)}

\* C16: is_complete(S) is true exactly when S contains every task id of the
\* graph, so it is false for every proper subset of the ids, and its value is
\* the same whatever the status of the tasks.
C16_IsCompleteIffAllIds ==
    pc = "is_complete" =>
        /\ complete <=> TaskIds \subseteq completed_tasks
        /\ \A S \in SUBSET TaskIds : S # TaskIds => ~is_complete(tasks, S)
        /\ \A status \in TaskStatus :
              is_complete([i \in 1..Len(tasks) |-> [tasks[i] EXCEPT !.status = status]],
                          completed_tasks) = complete

\* is_complete has returned true for a graph of two tasks with different ids,
\* one of them still pending
C16_Witness ==
    /\ pc = "is_complete"
    /\ complete
    /\ Len(tasks) = 2
    /\ tasks[1].id # tasks[2].id
    /\ tasks[1].status = PENDING
    /\ tasks[2].status = COMPLETED

\* C17: add_task refuses a task whose id the graph already holds, so the task
\* ids of the graph are pairwise distinct.
C17_TaskIdsDistinct ==
    \A i, j \in 1..Len(tasks) : i # j => tasks[i].id # tasks[j].id

\* C18: add_dependency refuses an edge with an endpoint that is not a task of the
\* graph, so both endpoints of every edge are ids of tasks in the graph.
C18_EdgeEndpointsAreTasks ==
    \A k \in 1..Len(edges) : edges[k][1] \in TaskIds /\ edges[k][2] \in TaskIds

\* C19: (d, t) is an edge of the graph if and only if d is in the dependencies
\* list of task t.
C19_EdgesMirrorDependencies ==
    \A d \in GraphIds, t \in GraphIds :
        <<d, t>> \in Range(edges)
        <=> \E i \in 1..Len(tasks) :
               tasks[i].id = t /\ d \in Range(tasks[i].dependencies)

\* the dependencies of the task whose recorded result is successful
SuccessfulDependencies(task) ==
    {d \in Range(task.dependencies) : d \in DOMAIN task_results /\ task_results[d].success}

\* C20: _prepare_task_payload returns the keys of the task's own payload, the
\* data keys of every dependency whose recorded result is successful, and
\* original_query, and nothing from a dependency with a failed result or with
\* no recorded result; it leaves the results map and the task as they were.
C20_PreparedPayload ==
    [][(pc = "call" /\ pc' = "prepare_task_payload") =>
          /\ prepared_payload' =
                 tasks[1].payload
                 \cup UNION {task_results[d].data : d \in SuccessfulDependencies(tasks[1])}
                 \cup {"original_query"}
          /\ task_results' = task_results
          /\ tasks' = tasks]_vars

\* the method has returned for a task with a successful dependency, whose data
\* was merged, a failed one with data and one with no recorded result
C20_Witness ==
    /\ pc = "prepare_task_payload"
    /\ tasks[1].dependencies = DependencyIds
    /\ "task_1" \in DOMAIN task_results
    /\ task_results["task_1"].success
    /\ task_results["task_1"].data = {"transactions"}
    /\ "task_2" \in DOMAIN task_results
    /\ ~task_results["task_2"].success
    /\ task_results["task_2"].data = {"patterns"}
    /\ "task_3" \notin DOMAIN task_results
    /\ tasks[1].payload = {"analysis_type"}
    /\ prepared_payload = {"analysis_type", "transactions", "original_query"}

\* the confidences of the methods in the last _calculate_consensus call
ConfidencesOf(method_results) ==
    [k \in 1..Len(method_results) |-> method_results[k].confidence]

\* C21: the consensus score is the arithmetic mean of the methods' confidences,
\* consensus_reached is true exactly when the score is >= the threshold, and
\* confidences [0.9, 0.85, 0.95] at threshold 0.8 give score 0.9 with consensus.
C21_ConsensusScoreIsMean ==
    pc = "calculate_consensus" =>
        LET confidences == ConfidencesOf(consensus.agent_results)
            r == consensus.returned
        IN  /\ r.consensus_score * Len(confidences) = Sum(confidences)
            /\ r.consensus_reached <=> r.consensus_score >= consensus.threshold
            /\ (/\ confidences = <<Hundredths(90), Hundredths(85), Hundredths(95)>>
                /\ consensus.threshold = Hundredths(80))
               => r.consensus_score = Hundredths(90) /\ r.consensus_reached

\* _calculate_consensus has returned for confidences [0.9, 0.85, 0.95] at 0.8
C21_Witness ==
    /\ pc = "calculate_consensus"
    /\ ConfidencesOf(consensus.agent_results)
           = <<Hundredths(90), Hundredths(85), Hundredths(95)>>
    /\ consensus.threshold = Hundredths(80)
    /\ consensus.returned.consensus_score = Hundredths(90)
    /\ consensus.returned.consensus_reached

\* the verified flags of the methods in the last _calculate_consensus call
VerifiedFlags == {consensus.agent_results[k].verified :
                     k \in 1..Len(consensus.agent_results)}

\* C22: disagreement_reasons is non-empty if and only if consensus is not reached
\* or the methods' verified flags are not all the same; so it is non-empty when
\* the flags differ although the mean is at or above the threshold.
C22_DisagreementReasons ==
    pc = "calculate_consensus" =>
        (consensus.returned.disagreement_reasons # <<>>
         <=> \/ ~consensus.returned.consensus_reached
             \/ Cardinality(VerifiedFlags) > 1)

\* consensus was reached, the verified flags differ and a reason was recorded
C22_Witness ==
    /\ pc = "calculate_consensus"
    /\ consensus.returned.consensus_reached
    /\ Cardinality(VerifiedFlags) > 1
    /\ consensus.returned.disagreement_reasons # <<>>

\* the ordered first-match policy for the human-review flag
ReviewPolicy(consensus_reached, consensus_score, pattern_type, original_confidence) ==
    CASE consensus_reached /\ consensus_score > Hundredths(80) -> FALSE
      [] ~(consensus_reached /\ consensus_score > Hundredths(80))
         /\ ~consensus_reached -> TRUE
      [] ~(consensus_reached /\ consensus_score > Hundredths(80))
         /\ consensus_reached
         /\ pattern_type \in {"structuring", "layering", "integration"} -> TRUE
      [] ~(consensus_reached /\ consensus_score > Hundredths(80))
         /\ consensus_reached
         /\ pattern_type \notin {"structuring", "layering", "integration"}
         /\ original_confidence > Hundredths(80)
         /\ consensus_score < Hundredths(70) -> TRUE
      [] OTHER -> FALSE

C24_RepeatedVerificationAgrees ==
    \A i, j \in 1..Len(verification_results) :
        /\ verification_results[i].agent_results = verification_results[j].agent_results
        /\ verification_results[i].consensus_score
               = verification_results[j].consensus_score
        /\ verification_results[i].consensus_reached
               = verification_results[j].consensus_reached
        /\ verification_results[i].requires_human_review
               = verification_results[j].requires_human_review

\* C25: each of the three methods returns a confidence within [0, 1] and a
\* verified flag that is true exactly when that confidence is above 0.6, and
\* the consensus score is within [0, 1].
C25_ConfidencesWithinUnitInterval ==
    \A i \in 1..Len(verification_results) :
        LET r == verification_results[i] IN
        /\ Len(r.agent_results) = 3
        /\ \A k \in 1..Len(r.agent_results) :
              /\ 0 <= r.agent_results[k].confidence
              /\ r.agent_results[k].confidence <= Hundredths(100)
              /\ r.agent_results[k].verified
                 <=> r.agent_results[k].confidence > Hundredths(60)
        /\ 0 <= r.consensus_score
        /\ r.consensus_score <= Hundredths(100)

\* a verification in which the statistical score was raised to 0 and the
\* rule-based score was lowered to 1
C25_Witness ==
    \E i \in 1..Len(verification_results) :
        /\ pattern.confidence < 0
        /\ verification_results[i].agent_results[1].confidence = 0
        /\ ~verification_results[i].agent_results[1].verified
        /\ verification_results[i].agent_results[2].confidence = Hundredths(100)
        /\ verification_results[i].agent_results[2].verified

\* the positions of the transactions of a sender on a calendar day
RecordsOf(sender, day) ==
    {k \in 1..Len(transactions) :
        transactions[k].sender_id = sender /\ transactions[k].timestamp.day = day}

RECURSIVE TotalOf(_)
TotalOf(positions) ==
    IF positions = {} THEN 0
    ELSE LET k == CHOOSE k \in positions : TRUE
         IN  transactions[k].amount + TotalOf(positions \ {k})

\* a (sender, day) group that is structuring: at least 3 records whose sum is
\* above 10000 while every amount is below 10000
IsStructuring(sender, day) ==
    /\ Cardinality(RecordsOf(sender, day)) >= 3
    /\ TotalOf(RecordsOf(sender, day)) > 10000
    /\ \A k \in RecordsOf(sender, day) : transactions[k].amount < 10000

\* the findings reported for a sender and a calendar day
FindingsOf(sender, day) ==
    {k \in 1..Len(patterns) : patterns[k].sender = sender /\ patterns[k].date = day}

\* C26: the structuring detector reports exactly one finding, with confidence
\* 0.8, for each (sender, calendar day) group of at least 3 records whose sum
\* exceeds 10000 with every amount below 10000, and none otherwise; four
\* same-day records of 3000 from one entity give exactly one finding.
C26_OneFindingPerStructuringGroup ==
    pc = "detect_structuring" =>
        /\ \A sender \in {"E1", "E2"}, day \in {1, 2} :
              Cardinality(FindingsOf(sender, day))
                  = IF IsStructuring(sender, day) THEN 1 ELSE 0
        /\ \A k \in 1..Len(patterns) :
              /\ patterns[k].confidence = Hundredths(80)
              /\ patterns[k].sender \in {"E1", "E2"}
              /\ patterns[k].date \in {1, 2}
        /\ (/\ Len(transactions) = 4
            /\ \A k \in 1..Len(transactions) :
                  /\ transactions[k].sender_id = "E1"
                  /\ transactions[k].timestamp.day = 1
                  /\ transactions[k].amount = 3000)
           => Len(patterns) = 1

\* the detector has run on four records of 3000 that one entity made at
\* different times of one day, and has reported one finding
C26_Witness ==
    /\ pc = "detect_structuring"
    /\ Len(transactions) = 4
    /\ \A k \in 1..Len(transactions) :
          /\ transactions[k].sender_id = "E1"
          /\ transactions[k].timestamp.day = 1
          /\ transactions[k].amount = 3000
    /\ transactions[1].timestamp # transactions[2].timestamp
    /\ Len(patterns) = 1
    /\ patterns[1].confidence = Hundredths(80)

\* C27: every finding an analysis task emits has a confidence within [0, 1],
\* whatever the anomaly scores and the detectors' outputs.
C27_FindingConfidenceWithinUnitInterval ==
    \A k \in 1..Len(suspicious_patterns) :
        /\ 0 <= suspicious_patterns[k].confidence
        /\ suspicious_patterns[k].confidence <= Hundredths(100)

\* C28: the completed-id set and the results map change only in a step of the
\* scheduling loop taken after every task dispatched in the round has
\* finished; while a dispatched task is still in flight they do not change.
C28_ResultsWrittenOnlyAfterTheRound ==
    [][(task_results' # task_results \/ completed_tasks' # completed_tasks)
       => /\ pc = "gathering"
          /\ pc' = "scheduling"
          /\ execution_tasks # <<>>
          /\ \A k \in 1..Len(execution_tasks) : execution_tasks[k].state = "done"]_vars

\* a round of two dispatched tasks has ended and both results are recorded
C28_Witness ==
    /\ pc = "scheduling"
    /\ execution_tasks = <<>>
    /\ Cardinality(DOMAIN task_results) >= 2

\* C29: each TaskResult recorded under an id was produced by the dispatch of
\* the task of that id, also when a ready task of the round has no registered
\* agent: the recorded result names that task, and that task was dispatched.
C29_ResultRecordedUnderItsOwnTask ==
    \A id \in DOMAIN task_results :
        /\ task_results[id].task_id = id
        /\ task_results[id].error.task_id = id
        /\ \A i \in 1..Len(tasks) :
              tasks[i].id = id => AgentOf(i) \in Agents /\ dispatch_count[i] > 0

\* every direct dependency of task i has a successful recorded result
UpstreamSucceeded(i) ==
    \A k \in 1..Len(tasks[i].dependencies) :
        /\ tasks[i].dependencies[k] \in DOMAIN task_results
        /\ task_results[tasks[i].dependencies[k]].success

\* C30: in the planner's default plan (retrieve, analyze, compliance_check,
\* verify, synthesize), when every upstream task has succeeded, the payload
\* prepared for a task from its direct dependencies' results holds the fields
\* its agent's validate_input requires, so that no task fails validation.
C30_DefaultPlanPayloadsValidate ==
    pc = "prepared" =>
        LET i == ready_tasks[1]
        IN  UpstreamSucceeded(i) => validate_input(AgentOf(i), tasks[i].payload)

====
